---- MODULE Spec2Model ----
(***************************************************************************)
(* alert_group_nl_log2slack: the polling/delivery loop                     *)
(* (fetch_logs_and_publish_forever, fetch_logs_with_retry) and the row     *)
(* pipeline (fix_dicts_datetime, fix_dicts_who_did_what, to_records).      *)
(*                                                                         *)
(* Time is in seconds on one clock (time.time() and datetime.now()).       *)
(***************************************************************************)
EXTENDS Integers, Sequences, FiniteSets, TLC

VARIABLES
    \* ---- delivery loop: program state
    pc,                 \* position of the process
    now,                \* the wall clock
    t0,                 \* fetch_logs_with_retry: start of the retry loop
    cache,              \* the CACHE_FILENAME artifact
    already_published,  \* fetch_logs_and_publish_forever: the snapshot
    data,               \* set(fetch_logs_with_retry()) of the current cycle
    not_published_yet,  \* data - already_published
    a_while_ago,        \* the cycle's cutoff
    queue,              \* rest of sorted(not_published_yet) still to visit
    \* ---- delivery loop: history (never read by the program)
    sent,               \* records sent in the current cycle, in sending order
    prev_data,          \* fetched set of the previous cycle of this process
    seen_before,        \* union of the fetched sets of all earlier cycles
    old_first,          \* records older than the cutoff in a first-ever fetch
    owed,               \* fresh unseen records of cycles whose delivery failed
    cycle,              \* successful fetches of this process so far
    fails,              \* failed attempts of the current retry loop
    spent,              \* time passed since the current retry loop began
    td_seen,            \* time passed in the retry loop at its latest failure
    failtime,           \* time spent in earlier retry loops that had failures
    cause,              \* what terminated the process
    restarts,           \* process starts after a termination
    fetches,            \* successful fetches of all processes so far
    found,              \* what the latest failed attempt of the running
                        \* retry loop found in the cache before unlinking
    read,               \* what fetch read from the cache in the latest attempt
    batch,              \* the list fetch_logs_with_retry returned last: how
                        \* many times it holds each record
    \* ---- row pipeline
    stage,              \* which function runs, or how the pipeline ended
    input,              \* the batch the pipeline was given
    todo,               \* rows the running function has not visited yet
    date,               \* fix_dicts_datetime: <<>> for None, else <<date>>
    new_data,           \* the running function's output list
    seen_sep,           \* history: a date-separator row has been consumed
    info,               \* fix_dicts_who_did_what: <<>> for None, else <<row>>
    last_row,           \* fix_dicts_who_did_what: index in new_data, 0 = None
    records,            \* to_records: output list
    \* ---- the raw document and the runs of fetch_logs on it
    doc,                \* the page: <<>> for none, else <<[columns, body]>>
    run,                \* which run of fetch_logs on doc this is
    first,              \* history: how the first run ended, <<>> before that
    index_error,        \* html_table_to_dicts: argument of its IndexError
    \* ---- formatting of a record
    SLACK_NO_MENTION_USERS,
    SLACK_USERMAP,
    self,               \* <<>>, or <<the record str() is called on>>
    message             \* <<>>, or <<the string str() returned>>

loopvars == <<pc, now, t0, cache, already_published, data, not_published_yet,
              a_while_ago, queue, sent, prev_data, seen_before, old_first,
              owed, cycle, fails, spent, td_seen, failtime, cause, restarts,
              fetches, found, read, batch>>

pipevars == <<stage, input, todo, date, new_data, seen_sep, info, last_row,
              records>>

tablevars == <<doc, run, first, index_error>>

strvars == <<SLACK_NO_MENTION_USERS, SLACK_USERMAP, self, message>>

vars == <<loopvars, pipevars, tablevars, strvars>>

(***************************************************************************)
(* Program constants                                                       *)
(***************************************************************************)
MAX_FAIL_TIME == 1800

SLEEP_AFTER_FAIL == 180

SLEEP_AFTER_CYCLE == 300

FOUR_HOURS == 14400

(***************************************************************************)
(* Bounds of the model                                                     *)
(***************************************************************************)
\* the clock when the first process starts
StartTime == 20000

\* the clock never passes StartTime + MaxElapsed
MaxElapsed == 2400

\* how long a slow fetch+parse attempt takes
LongFetch == 1500

\* how long the process stays down before it is started again
DownTime == 600

\* restarts of the process
MaxRestarts == 1

\* successful fetches where the portal's records vary
MaxFetches == 3

\* failed attempts per retry loop where the portal's records vary
FailsShown == 1

None == "None"

Range(s) == {s[i] : i \in 1..Len(s)}

(***************************************************************************)
(* AlarmRecord                                                             *)
(***************************************************************************)
\* Python compares str by code point; the strings of the model in that order.
CodePointOrder ==
    <<"", "(log)", "24H", "AFW", "ALARM_OFF", "ALARM_ON", "IN", "INB", "INF",
      "OVERRIDE_ALARM_TIME", "TLI", "TVU", "UIT", "UNEXPECT_ALARM_OFF",
      "UNEXPECT_NO_ALARM_YET">>

StrRank(s) == CHOOSE i \in 1..Len(CodePointOrder) : CodePointOrder[i] = s

StrLE(a, b) == StrRank(a) <= StrRank(b)

AlarmRecord(dt, ev, gr, se, ex) ==
    [datetime |-> dt, event |-> ev, group |-> gr, sector |-> se, extra |-> ex]

\* AlarmRecord.SORT_KEY: tuples (datetime, event) compare lexicographically
SortKeyLE(x, y) ==
    \/ x.datetime < y.datetime
    \/ x.datetime = y.datetime /\ StrLE(x.event, y.event)

Perms(S) ==
    {q \in [1..Cardinality(S) -> S] :
        \A i, j \in 1..Cardinality(S) : i # j => q[i] # q[j]}

OrderedByDatetimeOnly(S) ==
    {q \in Perms(S) : \A i, j \in 1..Len(q) :
        i < j => q[i].datetime <= q[j].datetime}

\* sorted(S, key=AlarmRecord.SORT_KEY): the order of records with equal keys
\* follows the set's iteration order, which the program does not control
Sorted(S) ==
    {q \in Perms(S) : \A i, j \in 1..Len(q) : i < j => SortKeyLE(q[i], q[j])}

(***************************************************************************)
(* The records the alarm portal may list                                   *)
(***************************************************************************)
OldTime == StartTime - FOUR_HOURS - 1

MidTime == StartTime - FOUR_HOURS + 2 * SLEEP_AFTER_CYCLE

FreshTime == StartTime

Records ==
    { AlarmRecord(OldTime, "ALARM_ON", "5", "0", "VOLL. ING BOB (In)"),
      AlarmRecord(MidTime, "ALARM_ON", "5", "0", "VOLL. ING BOB (In)"),
      AlarmRecord(MidTime, "ALARM_OFF", "6", "0", "UITGESCH. ALICE (Uit)"),
      AlarmRecord(FreshTime, "24H", "", "0", "AUTOTEST (Test)") }

\* the records listed where the retry loop is exercised
FewRecords == {r \in Records : r.event = "ALARM_ON"}

Instant == {0}

FetchDurations == {0, LongFetch}

DownTimes == {DownTime}

(***************************************************************************)
(* fetch_logs_and_publish_forever and fetch_logs_with_retry                *)
(***************************************************************************)
\* already_published = set() when the function is entered
StartSnapshot == {}

SnapshotUnion(fetched, published) == fetched \cup published

\* already_published = data
NewSnapshot(fetched, published) == fetched

DiffIgnoringSnapshot(fetched, published) == fetched

\* not_published_yet = (data - already_published)
NotPublishedYet(fetched, published) == fetched \ published

\* a_while_ago = (datetime.datetime.now() - datetime.timedelta(hours=4))
Cutoff(t) == t - FOUR_HOURS

NeverOld(record, cutoff) == FALSE

OldIfNotAfter(record, cutoff) == record.datetime <= cutoff

\* if record.datetime < a_while_ago: skipping old
IsOld(record, cutoff) == record.datetime < cutoff

ElapsedSinceProcessStart(t, start) == t - StartTime

\* td = time.time() - t0
Elapsed(t, start) == t - start

ExhaustedOnlyAbove(td) == td > MAX_FAIL_TIME

\* if td >= MAX_FAIL_TIME: raise
BudgetExhausted(td) == td >= MAX_FAIL_TIME

KeptCache(c) == c

\* with suppress(FileNotFoundError): os.unlink(CACHE_FILENAME)
Unlinked(c) == "absent"

\* fetch: the cached text is used only if it holds the marker
NeedsLogin(c) == c # "marker"

Pages == {"marker", "nomarker"}

InTime(t) == t <= StartTime + MaxElapsed

InitLoop ==
    /\ pc = "loop"
    /\ now = StartTime
    /\ t0 = StartTime
    /\ cache \in {"absent"} \cup Pages
    /\ already_published = StartSnapshot
    /\ data = {}
    /\ not_published_yet = {}
    /\ a_while_ago = Cutoff(StartTime)
    /\ queue = <<>>
    /\ sent = <<>>
    /\ prev_data = {}
    /\ seen_before = {}
    /\ old_first = {}
    /\ owed = {}
    /\ cycle = 0
    /\ fails = 0
    /\ spent = 0
    /\ td_seen = -1
    /\ failtime = 0
    /\ cause = None
    /\ restarts = 0
    /\ fetches = 0
    /\ found = "none"
    /\ read = "none"
    /\ batch = <<>>

\* no pipeline function is running
PipeIdle ==
    /\ stage = "idle"
    /\ input = <<>>
    /\ todo = <<>>
    /\ date = <<>>
    /\ new_data = <<>>
    /\ seen_sep = FALSE
    /\ info = <<>>
    /\ last_row = 0
    /\ records = <<>>

\* no document has been fetched
NoDocument ==
    /\ doc = <<>>
    /\ run = 0
    /\ first = <<>>
    /\ index_error = <<>>

\* SLACK_NO_MENTION_USERS = os.environ.get(..., '').split()
\* SLACK_USERMAP = {'alice': 'U0H87MYTC', 'frank': 'U025CBXTP'}
DefaultUsermap ==
    [u \in {"alice", "frank"} |->
        IF u = "alice" THEN "U0H87MYTC" ELSE "U025CBXTP"]

\* the globals as the module sets them with an empty environment; str() of a
\* record has not been called
StrIdle ==
    /\ SLACK_NO_MENTION_USERS = {}
    /\ SLACK_USERMAP = DefaultUsermap
    /\ self = <<>>
    /\ message = <<>>

Init == InitLoop /\ PipeIdle /\ NoDocument /\ StrIdle

\* while True: data = set(fetch_logs_with_retry()) ... t0 = time.time()
BeginCycle ==
    /\ pc = "loop"
    /\ pc' = "retry"
    /\ t0' = now
    /\ fails' = 0
    /\ spent' = 0
    /\ td_seen' = -1
    /\ found' = "none"
    /\ UNCHANGED <<now, cache, already_published, data, not_published_yet,
                   a_while_ago, queue, sent, prev_data, seen_before,
                   old_first, owed, cycle, failtime, cause, restarts, fetches,
                   read, batch>>
    /\ UNCHANGED <<pipevars, tablevars, strvars>>

\* One attempt of the retry loop ends in an exception after d seconds: the
\* cache is unlinked, then fetch reads it; if it holds no page with the
\* marker, login_and_fetch raises (the cache stays absent) or it returns a
\* page, which is cached, and a pipeline stage raises; else the page of the
\* cache is parsed and a pipeline stage raises.
AttemptFails(d, page) ==
    /\ pc = "retry"
    /\ found' = cache
    /\ read' = Unlinked(cache)
    /\ cache' = IF NeedsLogin(read') THEN page ELSE read'
    /\ LET t == now + d
           td == Elapsed(t, t0)
       IN  /\ fails' = fails + 1
           /\ td_seen' = spent + d
           /\ IF BudgetExhausted(td)
              THEN /\ InTime(t)
                   /\ now' = t
                   /\ spent' = spent + d
                   /\ pc' = "terminated"
                   /\ cause' = "fetch"
              ELSE /\ InTime(t + SLEEP_AFTER_FAIL)
                   /\ now' = t + SLEEP_AFTER_FAIL
                   /\ spent' = spent + d + SLEEP_AFTER_FAIL
                   /\ pc' = "retry"
                   /\ cause' = cause
    /\ UNCHANGED <<t0, already_published, data, not_published_yet,
                   a_while_ago, queue, sent, prev_data, seen_before,
                   old_first, owed, cycle, failtime, restarts, fetches,
                   batch>>
    /\ UNCHANGED <<pipevars, tablevars, strvars>>

LoginFails(durations) == \E d \in durations : AttemptFails(d, "absent")

ParseFails(durations) ==
    \E d \in durations, page \in Pages : AttemptFails(d, page)

\* An attempt returns the records `fetched` after d seconds; the loop body
\* then diffs, replaces the snapshot, takes the cutoff and sorts.
\* a set(...) that keeps only what the list holds once
HeldOnce(list) == {r \in DOMAIN list : list[r] = 1}

\* set(...) of a list, the list given as the number of times it holds each of
\* its records
set(list) == DOMAIN list

\* fetch_logs_with_retry returns a list of records out of `listed`, each of
\* them as many times as a number in `copies`, parsed from a page of `pages`
FetchReturns(durations, listed, copies, pages) ==
    \E d \in durations, page \in pages, distinct \in SUBSET listed :
      \E list \in [distinct -> copies] :
       LET fetched == set(list) IN
        /\ pc = "retry"
        /\ batch' = list
        /\ found' = "none"
        /\ read' = Unlinked(cache)
        /\ InTime(now + d)
        /\ cache' = IF NeedsLogin(read') THEN page ELSE read'
        /\ now' = now + d
        /\ spent' = spent + d
        /\ data' = fetched
        /\ not_published_yet' = NotPublishedYet(fetched, already_published)
        /\ already_published' = NewSnapshot(fetched, already_published)
        /\ a_while_ago' = Cutoff(now')
        /\ queue' \in Sorted(not_published_yet')
        /\ sent' = <<>>
        /\ prev_data' = data
        /\ seen_before' = seen_before \cup prev_data
        /\ old_first' = IF cycle = 0
                        THEN old_first \cup
                             {r \in fetched : r.datetime < now' - FOUR_HOURS}
                        ELSE old_first
        /\ cycle' = cycle + 1
        /\ failtime' = IF fails > 0 THEN failtime + spent' ELSE failtime
        /\ pc' = "delivering"
        /\ fetches' = fetches + 1
        /\ UNCHANGED <<t0, owed, fails, td_seen, cause, restarts>>
        /\ UNCHANGED <<pipevars, tablevars, strvars>>

\* the portal lists no log line twice
FetchSucceeds(durations, listed) ==
    FetchReturns(durations, listed, {1}, Pages)

\* the pages that hold the heading of the log table
LogPages == {page \in Pages : ~NeedsLogin(page)}

\* for record in sorted(...): if record.datetime < a_while_ago: skipping old
SkipOld ==
    /\ pc = "delivering"
    /\ queue # <<>>
    /\ IsOld(Head(queue), a_while_ago)
    /\ queue' = Tail(queue)
    /\ UNCHANGED <<pc, now, t0, cache, already_published, data,
                   not_published_yet, a_while_ago, sent, prev_data,
                   seen_before, old_first, owed, cycle, fails, spent,
                   td_seen, failtime, cause, restarts, fetches,
                   found, read, batch>>
    /\ UNCHANGED <<pipevars, tablevars, strvars>>

\* else: send_slack_message(str(record)) returns (status 200)
SendOk ==
    /\ pc = "delivering"
    /\ queue # <<>>
    /\ ~IsOld(Head(queue), a_while_ago)
    /\ sent' = Append(sent, Head(queue))
    /\ queue' = Tail(queue)
    /\ UNCHANGED <<pc, now, t0, cache, already_published, data,
                   not_published_yet, a_while_ago, prev_data, seen_before,
                   old_first, owed, cycle, fails, spent, td_seen, failtime,
                   cause, restarts, fetches,
                   found, read, batch>>
    /\ UNCHANGED <<pipevars, tablevars, strvars>>

\* the failure is swallowed and the loop goes on to the next record
SendFailsAndGoesOn ==
    /\ pc = "delivering"
    /\ queue # <<>>
    /\ ~IsOld(Head(queue), a_while_ago)
    /\ queue' = Tail(queue)
    /\ cause' = "send"
    /\ UNCHANGED <<pc, now, t0, cache, already_published, data,
                   not_published_yet, a_while_ago, sent, prev_data,
                   seen_before, old_first, owed, cycle, fails, spent,
                   td_seen, failtime, restarts, fetches,
                   found, read, batch>>
    /\ UNCHANGED <<pipevars, tablevars, strvars>>

\* else: send_slack_message raises (status other than 200, or a transport
\* error); nothing catches it
SendFails ==
    /\ pc = "delivering"
    /\ queue # <<>>
    /\ ~IsOld(Head(queue), a_while_ago)
    /\ pc' = "terminated"
    /\ cause' = "send"
    /\ owed' = owed \cup
               {r \in data \ prev_data : r.datetime >= now - FOUR_HOURS}
    /\ UNCHANGED <<now, t0, cache, already_published, data,
                   not_published_yet, a_while_ago, queue, sent, prev_data,
                   seen_before, old_first, cycle, fails, spent, td_seen,
                   failtime, restarts, fetches,
                   found, read, batch>>
    /\ UNCHANGED <<pipevars, tablevars, strvars>>

\* time.sleep(300) after the for loop
Sleep ==
    /\ pc = "delivering"
    /\ queue = <<>>
    /\ InTime(now + SLEEP_AFTER_CYCLE)
    /\ now' = now + SLEEP_AFTER_CYCLE
    /\ pc' = "loop"
    /\ owed' = {}
    /\ UNCHANGED <<t0, cache, already_published, data, not_published_yet,
                   a_while_ago, queue, sent, prev_data, seen_before,
                   old_first, cycle, fails, spent, td_seen, failtime, cause,
                   restarts, fetches,
                   found, read, batch>>
    /\ UNCHANGED <<pipevars, tablevars, strvars>>

\* The terminated process is started again (python ... publish):
\* fetch_logs_and_publish_forever is entered with a fresh snapshot.
Restart ==
    \E down \in DownTimes :
        /\ pc = "terminated"
        /\ restarts < MaxRestarts
        /\ InTime(now + down)
        /\ restarts' = restarts + 1
        /\ now' = now + down
        /\ pc' = "loop"
        /\ already_published' = StartSnapshot
        /\ data' = {}
        /\ not_published_yet' = {}
        /\ queue' = <<>>
        /\ sent' = <<>>
        /\ prev_data' = {}
        /\ seen_before' = {}
        /\ cycle' = 0
        /\ fails' = 0
        /\ spent' = 0
        /\ td_seen' = -1
        /\ failtime' = 0
        /\ cause' = None
        /\ batch' = <<>>
        /\ UNCHANGED <<t0, cache, a_while_ago, old_first, owed, fetches,
                   found, read>>
        /\ UNCHANGED <<pipevars, tablevars, strvars>>

\* The delivery loop where the portal's listing varies from cycle to cycle,
\* an attempt takes no time and a retry loop sees at most FailsShown failures.
Next ==
    \/ fetches < MaxFetches /\ BeginCycle
    \/ fails < FailsShown /\ LoginFails(Instant)
    \/ fails < FailsShown /\ ParseFails(Instant)
    \/ fetches < MaxFetches /\ FetchReturns(Instant, Records, {1}, LogPages)
    \/ SkipOld
    \/ SendOk
    \/ SendFails
    \/ Sleep
    \/ fetches < MaxFetches /\ Restart

Spec == Init /\ [][Next]_vars

\* The delivery loop where attempts may be slow and may fail any number of
\* times, the portal lists FewRecords, and a terminated process stays down.
NextRetry ==
    \/ BeginCycle
    \/ LoginFails(FetchDurations)
    \/ ParseFails(FetchDurations)
    \/ FetchSucceeds(FetchDurations, FewRecords)
    \/ SkipOld
    \/ SendOk
    \/ SendFails
    \/ Sleep

SpecRetry == Init /\ [][NextRetry]_vars

MaxCycles == 2
MaxCopies == 2

\* cycles without fetch failures in which the list fetch returns may hold a
\* record more than once
NextDuplicates ==
    \/ BeginCycle
    \/ /\ fetches < MaxCycles
       /\ FetchReturns(Instant, Records, 1..MaxCopies, LogPages)
    \/ SkipOld
    \/ SendOk
    \/ SendFails
    \/ Sleep

SpecDuplicates == Init /\ [][NextDuplicates]_vars

(***************************************************************************)
(* Rows of the portal's table                                              *)
(***************************************************************************)
\* rows per batch
MaxRows == 4

\* a row without the key 'Info'
NoInfo == "<no Info>"

Row(aansluiting, alrm, groep, omschrijving, sector, tijd) ==
    [Aansluiting |-> aansluiting, Alrm |-> alrm, Groep |-> groep,
     Omschrijving |-> omschrijving, Sector |-> sector, Tijd |-> tijd,
     Info |-> NoInfo]

\* the text of a Tijd cell: three numbers joined by "/" or by ":"
Text(sep, a, b, c) == [sep |-> sep, parts |-> <<a, b, c>>]

\* str.split(sep) of such a text: its three numbers, or the text in one piece
Split(text, sep) == IF text.sep = sep THEN text.parts ELSE <<text>>

IsLeap(y) == y % 4 = 0 /\ (y % 100 # 0 \/ y % 400 = 0)

DaysIn(y, m) ==
    IF m = 2 THEN (IF IsLeap(y) THEN 29 ELSE 28)
    ELSE IF m \in {4, 6, 9, 11} THEN 30 ELSE 31

\* datetime.date(y, m, d) raises ValueError unless this holds
ValidDate(y, m, d) == m \in 1..12 /\ d >= 1 /\ d <= DaysIn(y, m)

\* datetime.datetime(..., hh, mm, ss) raises ValueError unless this holds
ValidTime(hh, mm, ss) == hh \in 0..23 /\ mm \in 0..59 /\ ss \in 0..59

DateMonthFirst(y, m, d) == [year |-> y, month |-> d, day |-> m]

\* datetime.date(y, m, d)
Date(y, m, d) == [year |-> y, month |-> m, day |-> d]

DateTime(d, hh, mm, ss) ==
    [year |-> d.year, month |-> d.month, day |-> d.day,
     hour |-> hh, minute |-> mm, second |-> ss]

\* row['Aansluiting'] == row['Alrm'] == row['Groep'] == row['Omschrijving']
\*     == '' and row['Sector'] == '---'
IsSeparator(row) ==
    /\ row.Aansluiting = row.Alrm
    /\ row.Alrm = row.Groep
    /\ row.Groep = row.Omschrijving
    /\ row.Omschrijving = ""
    /\ row.Sector = "---"

SeqsUpTo(S, n) == UNION {[1..k -> S] : k \in 0..n}

(***************************************************************************)
(* fix_dicts_datetime                                                      *)
(***************************************************************************)
DateToday == <<Date(2023, 2, 2)>>

\* date = None
InitialDate == <<>>

\* One pass of the for loop over `row`, from the locals st = [new_data,
\* date, ok]; ok is FALSE when the pass raises.
DatetimeStep(st, row) ==
    IF IsSeparator(row)
    THEN LET p == Split(row.Tijd, "/")
         IN  IF Len(p) # 3 \/ ~ValidDate(2000 + p[3], p[2], p[1])
             THEN [st EXCEPT !.ok = FALSE]
             ELSE [st EXCEPT !.date = <<Date(2000 + p[3], p[2], p[1])>>]
    ELSE LET p == Split(row.Tijd, ":")
         IN  IF Len(p) # 3 \/ st.date = <<>> \/ ~ValidTime(p[1], p[2], p[3])
             THEN [st EXCEPT !.ok = FALSE]
             ELSE [st EXCEPT !.new_data =
                      Append(@, [row EXCEPT !.Tijd =
                          DateTime(st.date[1], p[1], p[2], p[3])])]

RECURSIVE DatetimeLoop(_, _)
DatetimeLoop(st, rows) ==
    IF rows = <<>> \/ ~st.ok THEN st
    ELSE DatetimeLoop(DatetimeStep(st, Head(rows)), Tail(rows))

fix_dicts_datetime(rows) ==
    DatetimeLoop([new_data |-> <<>>, date |-> InitialDate, ok |-> TRUE], rows)

(***************************************************************************)
(* fix_dicts_who_did_what                                                  *)
(***************************************************************************)
\* the asserts without the one on Aansluiting
SameKeyButDevice(a, b) ==
    /\ a.Groep = b.Groep
    /\ a.Sector = b.Sector
    /\ a.Tijd = b.Tijd

SameKey(a, b) ==
    /\ a.Aansluiting = b.Aansluiting
    /\ a.Groep = b.Groep
    /\ a.Sector = b.Sector
    /\ a.Tijd = b.Tijd

NeverMatchesLastRow(st, row) == FALSE

\* last_row counts only while no INF row is pending
MatchesLastRowWhenNothingPending(st, row) ==
    st.info = <<>> /\ st.last_row # 0 /\ SameKey(st.new_data[st.last_row], row)

\* last_row is not None and (last_row[...] == row[...] and ...)
MatchesLastRow(st, row) ==
    st.last_row # 0 /\ SameKey(st.new_data[st.last_row], row)

\* the pass over an INF row that does not match last_row also emits the row
WhoStepEmittingAnnotations(st, row) ==
    IF row.Alrm = "INF"
    THEN IF MatchesLastRow(st, row)
         THEN [st EXCEPT !.new_data[st.last_row].Info = row.Omschrijving]
         ELSE [st EXCEPT !.info = <<row>>, !.new_data = Append(@, row)]
    ELSE IF st.info # <<>>
         THEN IF SameKey(row, st.info[1])
              THEN [new_data |-> Append(st.new_data,
                        [row EXCEPT !.Info = st.info[1].Omschrijving]),
                    info |-> <<>>, last_row |-> 0, ok |-> TRUE]
              ELSE [st EXCEPT !.ok = FALSE]
         ELSE [st EXCEPT !.new_data = Append(@, row),
                         !.last_row = Len(st.new_data) + 1]

\* the pass after a pending INF row leaves last_row on the row it appended
WhoStepKeepingLastRow(st, row) ==
    IF row.Alrm = "INF"
    THEN IF MatchesLastRow(st, row)
         THEN [st EXCEPT !.new_data[st.last_row].Info = row.Omschrijving]
         ELSE [st EXCEPT !.info = <<row>>]
    ELSE IF st.info # <<>>
         THEN IF SameKey(row, st.info[1])
              THEN [new_data |-> Append(st.new_data,
                        [row EXCEPT !.Info = st.info[1].Omschrijving]),
                    info |-> <<>>, last_row |-> Len(st.new_data) + 1,
                    ok |-> TRUE]
              ELSE [st EXCEPT !.ok = FALSE]
         ELSE [st EXCEPT !.new_data = Append(@, row),
                         !.last_row = Len(st.new_data) + 1]

\* an INF row that does not match last_row is pending only if none is yet
WhoStepKeepingFirstPending(st, row) ==
    IF row.Alrm = "INF"
    THEN IF MatchesLastRow(st, row)
         THEN [st EXCEPT !.new_data[st.last_row].Info = row.Omschrijving]
         ELSE IF st.info # <<>> THEN st ELSE [st EXCEPT !.info = <<row>>]
    ELSE IF st.info # <<>>
         THEN IF SameKey(row, st.info[1])
              THEN [new_data |-> Append(st.new_data,
                        [row EXCEPT !.Info = st.info[1].Omschrijving]),
                    info |-> <<>>, last_row |-> 0, ok |-> TRUE]
              ELSE [st EXCEPT !.ok = FALSE]
         ELSE [st EXCEPT !.new_data = Append(@, row),
                         !.last_row = Len(st.new_data) + 1]

\* One pass of the for loop over `row`, from the locals st = [new_data, info,
\* last_row, ok]. last_row is the index in new_data of the dict it refers to
\* (always the last one), so that setting last_row['Info'] changes new_data.
WhoStep(st, row) ==
    IF row.Alrm = "INF"
    THEN IF MatchesLastRow(st, row)
         THEN [st EXCEPT !.new_data[st.last_row].Info = row.Omschrijving]
         ELSE [st EXCEPT !.info = <<row>>]
    ELSE IF st.info # <<>>
         THEN IF SameKey(row, st.info[1])
              THEN [new_data |-> Append(st.new_data,
                        [row EXCEPT !.Info = st.info[1].Omschrijving]),
                    info |-> <<>>, last_row |-> 0, ok |-> TRUE]
              ELSE [st EXCEPT !.ok = FALSE]
         ELSE [st EXCEPT !.new_data = Append(@, row),
                         !.last_row = Len(st.new_data) + 1]

RECURSIVE WhoLoop(_, _)
WhoLoop(st, rows) ==
    IF rows = <<>> \/ ~st.ok THEN st
    ELSE WhoLoop(WhoStep(st, Head(rows)), Tail(rows))

\* the locals as an earlier call left them
WhoCarried ==
    [new_data |-> <<>>, info |-> info, last_row |-> last_row, ok |-> TRUE]

\* new_data = []; info = None; last_row = None
WhoStart == [new_data |-> <<>>, info |-> <<>>, last_row |-> 0, ok |-> TRUE]

fix_dicts_who_did_what(rows) == WhoLoop(WhoStart, rows)

(***************************************************************************)
(* to_records                                                              *)
(***************************************************************************)
\* assert all(i['Aansluiting'] == data[0]['Aansluiting'] for i in data)
SameDevice(rows) ==
    \A i \in 1..Len(rows) : rows[i].Aansluiting = rows[1].Aansluiting

EventVerbatim(alrm) == alrm

\* {...}.get(row['Alrm'], row['Alrm'])
EventOf(alrm) ==
    CASE alrm = "IN" -> "ALARM_ON"
      [] alrm = "UIT" -> "ALARM_OFF"
      [] alrm = "24H" -> "24H"
      [] alrm = "TVU" -> "UNEXPECT_ALARM_OFF"
      [] alrm = "TLI" -> "UNEXPECT_NO_ALARM_YET"
      [] alrm = "AFW" -> "OVERRIDE_ALARM_TIME"
      [] OTHER -> alrm

ExtraInfoOnly(row) == IF row.Info # NoInfo THEN row.Info ELSE ""

ExtraAlwaysInParentheses(row) ==
    LET extra == IF row.Info # NoInfo THEN row.Info ELSE ""
    IN  IF row.Omschrijving # ""
        THEN IF extra # ""
             THEN extra \o " (" \o row.Omschrijving \o ")"
             ELSE row.Omschrijving
        ELSE extra

\* extra = row['Info'] if 'Info' in row else ''; if row['Omschrijving']: ...
ExtraOf(row) ==
    LET extra == IF row.Info # NoInfo THEN row.Info ELSE ""
    IN  IF row.Omschrijving # ""
        THEN IF extra # "" /\ extra # ":"
             THEN extra \o " (" \o row.Omschrijving \o ")"
             ELSE row.Omschrijving
        ELSE extra

RecordWithRawEvent(row) ==
    AlarmRecord(row.Tijd, EventOf(row.Alrm), row.Groep, row.Sector,
                ExtraOf(row))

\* AlarmRecord(datetime=row['Tijd'], event=(event or '(log)'), ...)
RecordOf(row) ==
    AlarmRecord(row.Tijd,
                IF EventOf(row.Alrm) # "" THEN EventOf(row.Alrm) ELSE "(log)",
                row.Groep, row.Sector, ExtraOf(row))

to_records(rows) ==
    IF SameDevice(rows)
    THEN [ok |-> TRUE, records |-> [i \in 1..Len(rows) |-> RecordOf(rows[i])]]
    ELSE [ok |-> FALSE, records |-> <<>>]

(***************************************************************************)
(* The pipeline of fetch_logs, one pass of a for loop per step             *)
(***************************************************************************)
\* the delivery loop has not started
LoopIdle == InitLoop /\ cache = "absent" /\ StrIdle

SepRow(dd, mm, yy) == Row("", "", "", "", "---", Text("/", dd, mm, yy))

RawRows ==
    { SepRow(2, 2, 23),
      SepRow(3, 2, 23),
      SepRow(31, 2, 23),
      Row("E0123456", "INF", "5", "VOLL. ING BOB", "0", Text(":", 19, 9, 48)),
      Row("E0123456", "IN", "5", "In", "0", Text(":", 19, 9, 48)),
      Row("E0123456", "UIT", "6", "Uit", "0", Text(":", 8, 37, 11)),
      Row("E0123456", "UIT", "6", "Uit", "0", Text("/", 2, 2, 23)) }

Evening == DateTime(Date(2023, 2, 2), 19, 9, 48)

Morning == DateTime(Date(2023, 2, 2), 8, 37, 11)

ResolvedRows ==
    { Row("E0123456", "INF", "5", "VOLL. ING BOB", "0", Evening),
      Row("E0123456", "INF", "5", "VOLL. ING ALICE", "0", Evening),
      Row("E0123456", "INF", "5", "VOLL. ING BOB", "0", Morning),
      Row("E0999999", "INF", "5", "VOLL. ING BOB", "0", Evening),
      Row("E0123456", "IN", "5", "In", "0", Evening),
      Row("E0123456", "UIT", "5", "Uit", "0", Evening),
      Row("E0123456", "IN", "5", "In", "0", Morning),
      Row("E0999999", "IN", "5", "In", "0", Evening) }

InitMerge ==
    /\ LoopIdle
    /\ NoDocument
    /\ stage = "datetime"
    /\ input \in SeqsUpTo(RawRows, MaxRows)
    /\ todo = input
    /\ date = InitialDate
    /\ new_data = <<>>
    /\ seen_sep = FALSE
    /\ info = <<>>
    /\ last_row = 0
    /\ records = <<>>

InitReconcile ==
    /\ LoopIdle
    /\ NoDocument
    /\ stage = "who"
    /\ input \in SeqsUpTo(ResolvedRows, MaxRows)
    /\ todo = input
    /\ date = <<>>
    /\ new_data = <<>>
    /\ seen_sep = FALSE
    /\ info = <<>>
    /\ last_row = 0
    /\ records = <<>>

DatetimeLocals == [new_data |-> new_data, date |-> date, ok |-> TRUE]

\* fix_dicts_datetime: the pass over a date-separator row
DatetimeSeparatorRow ==
    /\ stage = "datetime"
    /\ todo # <<>>
    /\ IsSeparator(Head(todo))
    /\ LET st == DatetimeStep(DatetimeLocals, Head(todo))
       IN  /\ st.ok
           /\ date' = st.date
    /\ seen_sep' = TRUE
    /\ todo' = Tail(todo)
    /\ UNCHANGED <<stage, input, new_data, info, last_row, records>>
    /\ UNCHANGED <<loopvars, tablevars, strvars>>

\* fix_dicts_datetime: the pass over any other row
DatetimeEventRow ==
    /\ stage = "datetime"
    /\ todo # <<>>
    /\ ~IsSeparator(Head(todo))
    /\ LET st == DatetimeStep(DatetimeLocals, Head(todo))
       IN  /\ st.ok
           /\ new_data' = st.new_data
    /\ todo' = Tail(todo)
    /\ UNCHANGED <<stage, input, date, seen_sep, info, last_row, records>>
    /\ UNCHANGED <<loopvars, tablevars, strvars>>

\* fix_dicts_datetime: the pass raises (ValueError, AttributeError)
DatetimeRaises ==
    /\ stage = "datetime"
    /\ todo # <<>>
    /\ ~DatetimeStep(DatetimeLocals, Head(todo)).ok
    /\ stage' = "error"
    /\ UNCHANGED <<input, todo, date, new_data, seen_sep, info, last_row,
                   records>>
    /\ UNCHANGED <<loopvars, tablevars, strvars>>

\* return new_data; fetch_logs passes it to fix_dicts_who_did_what
DatetimeReturns ==
    /\ stage = "datetime"
    /\ todo = <<>>
    /\ stage' = "who"
    /\ todo' = new_data
    /\ new_data' = WhoStart.new_data
    /\ info' = WhoStart.info
    /\ last_row' = WhoStart.last_row
    /\ UNCHANGED <<input, date, seen_sep, records>>
    /\ UNCHANGED <<loopvars, tablevars, strvars>>

WhoLocals ==
    [new_data |-> new_data, info |-> info, last_row |-> last_row, ok |-> TRUE]

WhoPass ==
    LET st == WhoStep(WhoLocals, Head(todo))
    IN  /\ st.ok
        /\ new_data' = st.new_data
        /\ info' = st.info
        /\ last_row' = st.last_row
        /\ todo' = Tail(todo)
        /\ UNCHANGED <<stage, input, date, seen_sep, records>>
        /\ UNCHANGED <<loopvars, tablevars, strvars>>

\* fix_dicts_who_did_what: an INF row that matches last_row
WhoAnnotationBackward ==
    /\ stage = "who"
    /\ todo # <<>>
    /\ Head(todo).Alrm = "INF"
    /\ MatchesLastRow(WhoLocals, Head(todo))
    /\ WhoPass

\* fix_dicts_who_did_what: any other INF row
WhoAnnotationPending ==
    /\ stage = "who"
    /\ todo # <<>>
    /\ Head(todo).Alrm = "INF"
    /\ ~MatchesLastRow(WhoLocals, Head(todo))
    /\ WhoPass

\* fix_dicts_who_did_what: a row after a pending INF row
WhoForward ==
    /\ stage = "who"
    /\ todo # <<>>
    /\ Head(todo).Alrm # "INF"
    /\ info # <<>>
    /\ WhoPass

\* fix_dicts_who_did_what: one of the four asserts fails
WhoAssertFails ==
    /\ stage = "who"
    /\ todo # <<>>
    /\ ~WhoStep(WhoLocals, Head(todo)).ok
    /\ stage' = "error"
    /\ UNCHANGED <<input, todo, date, new_data, seen_sep, info, last_row,
                   records>>
    /\ UNCHANGED <<loopvars, tablevars, strvars>>

\* fix_dicts_who_did_what: a row with no INF row pending
WhoPlain ==
    /\ stage = "who"
    /\ todo # <<>>
    /\ Head(todo).Alrm # "INF"
    /\ info = <<>>
    /\ WhoPass

\* a return that first gives the pending INF row's text to the last row
WhoReturnsFlushing ==
    /\ stage = "who"
    /\ todo = <<>>
    /\ stage' = "to_records"
    /\ new_data' = IF info # <<>> /\ new_data # <<>>
                   THEN [new_data EXCEPT
                            ![Len(new_data)].Info = info[1].Omschrijving]
                   ELSE new_data
    /\ UNCHANGED <<input, todo, date, seen_sep, info, last_row, records>>
    /\ UNCHANGED <<loopvars, tablevars, strvars>>

\* return new_data; fetch_logs passes it to to_records
WhoReturns ==
    /\ stage = "who"
    /\ todo = <<>>
    /\ stage' = "to_records"
    /\ UNCHANGED <<input, todo, date, new_data, seen_sep, info, last_row,
                   records>>
    /\ UNCHANGED <<loopvars, tablevars, strvars>>

\* to_records: the assert on Aansluiting fails
ToRecordsAssertFails ==
    /\ stage = "to_records"
    /\ ~to_records(new_data).ok
    /\ stage' = "error"
    /\ UNCHANGED <<input, todo, date, new_data, seen_sep, info, last_row,
                   records>>
    /\ UNCHANGED <<loopvars, tablevars, strvars>>

\* to_records: the assert holds
ToRecordsAssertHolds ==
    /\ stage = "to_records"
    /\ to_records(new_data).ok
    /\ stage' = "records"
    /\ UNCHANGED <<input, todo, date, new_data, seen_sep, info, last_row,
                   records>>
    /\ UNCHANGED <<loopvars, tablevars, strvars>>

\* to_records: one pass of the for loop
ToRecordsRow ==
    /\ stage = "records"
    /\ Len(records) < Len(new_data)
    /\ records' = Append(records, to_records(new_data).records[Len(records) + 1])
    /\ UNCHANGED <<stage, input, todo, date, new_data, seen_sep, info,
                   last_row>>
    /\ UNCHANGED <<loopvars, tablevars, strvars>>

\* return new_data
ToRecordsReturns ==
    /\ stage = "records"
    /\ Len(records) = Len(new_data)
    /\ stage' = "done"
    /\ UNCHANGED <<input, todo, date, new_data, seen_sep, info, last_row,
                   records>>
    /\ UNCHANGED <<loopvars, tablevars, strvars>>

NextMerge ==
    \/ DatetimeSeparatorRow
    \/ DatetimeEventRow
    \/ DatetimeRaises
    \/ DatetimeReturns

\* fix_dicts_datetime on every batch of at most MaxRows rows of RawRows
SpecMerge == InitMerge /\ [][NextMerge]_vars

NextReconcile ==
    \/ WhoAnnotationBackward
    \/ WhoAnnotationPending
    \/ WhoForward
    \/ WhoAssertFails
    \/ WhoPlain
    \/ WhoReturns
    \/ ToRecordsAssertFails
    \/ ToRecordsAssertHolds
    \/ ToRecordsRow
    \/ ToRecordsReturns

\* fix_dicts_who_did_what, then to_records, on every date-resolved batch of
\* at most MaxRows rows of ResolvedRows
SpecReconcile == InitReconcile /\ [][NextReconcile]_vars

(***************************************************************************)
(* html_table_to_dicts                                                     *)
(***************************************************************************)
\* rows in the body of a page given to fetch_logs
MaxBody == 3

\* rows in the body of a table given to html_table_to_dicts alone
MaxTrs == 2

\* cells in such a row
MaxCells == 3

\* labels in the header of such a table
MaxLabels == 2

Whitespace == {" ", "\n", "\t", "\r"}

\* str.lstrip()
RECURSIVE LStrip(_)
LStrip(s) ==
    IF Len(s) > 0 /\ SubSeq(s, 1, 1) \in Whitespace
    THEN LStrip(SubSeq(s, 2, Len(s)))
    ELSE s

\* str.rstrip()
RECURSIVE RStrip(_)
RStrip(s) ==
    IF Len(s) > 0 /\ SubSeq(s, Len(s), Len(s)) \in Whitespace
    THEN RStrip(SubSeq(s, 1, Len(s) - 1))
    ELSE s

NoStrip(s) == s

\* i.text.strip()
Strip(s) == LStrip(RStrip(s))

\* A document is its first table: the texts of the th cells of the header
\* row and, for each tr of the body, the texts of its td cells.
Document(columns, body) == [columns |-> columns, body |-> body]

OverflowsWhenFull(columns, tds) == Len(tds) >= Len(columns)

\* columns[n] raises IndexError for some n of enumerate(tr.find_all('td'))
Overflows(columns, tds) == Len(tds) > Len(columns)

\* dict((columns[n], i.text.strip()) for n, i in enumerate(tds)): of two
\* cells under the same label the later one stays
RowDict(columns, tds) ==
    [l \in {columns[n] : n \in 1..Len(tds)} |->
        LET last == CHOOSE n \in 1..Len(tds) :
                        /\ columns[n] = l
                        /\ \A m \in 1..Len(tds) : columns[m] = l => m <= n
        IN  Strip(tds[last])]

\* One pass of the for loop over the tds of a tr, from the locals
\* st = [data, ok, raised]; raised is the argument of the IndexError.
HtmlStep(columns, st, tds) ==
    IF Overflows(columns, tds)
    THEN [st EXCEPT !.ok = FALSE, !.raised = <<tds>>]
    ELSE [st EXCEPT !.data = Append(@, RowDict(columns, tds))]

RECURSIVE HtmlLoop(_, _, _)
HtmlLoop(columns, st, trs) ==
    IF trs = <<>> \/ ~st.ok THEN st
    ELSE HtmlLoop(columns, HtmlStep(columns, st, Head(trs)), Tail(trs))

html_table_to_dicts(html_doc) ==
    HtmlLoop(html_doc.columns, [data |-> <<>>, ok |-> TRUE, raised |-> <<>>],
             html_doc.body)

HtmlLocals == [data |-> new_data, ok |-> TRUE, raised |-> <<>>]

\* html_table_to_dicts: the pass over a tr that fits the header
HtmlRow ==
    /\ stage = "html"
    /\ todo # <<>>
    /\ LET st == HtmlStep(doc[1].columns, HtmlLocals, Head(todo))
       IN  /\ st.ok
           /\ new_data' = st.data
    /\ todo' = Tail(todo)
    /\ UNCHANGED <<stage, input, date, seen_sep, info, last_row, records>>
    /\ UNCHANGED <<loopvars, tablevars, strvars>>

\* html_table_to_dicts: raise IndexError(str(tr.find_all('td'))) from e
HtmlRaises ==
    /\ stage = "html"
    /\ todo # <<>>
    /\ LET st == HtmlStep(doc[1].columns, HtmlLocals, Head(todo))
       IN  /\ ~st.ok
           /\ index_error' = st.raised
    /\ stage' = "error"
    /\ UNCHANGED <<input, todo, date, new_data, seen_sep, info, last_row,
                   records>>
    /\ UNCHANGED <<loopvars, doc, run, first, strvars>>

\* return data
HtmlReturns ==
    /\ stage = "html"
    /\ todo = <<>>
    /\ stage' = "rows"
    /\ UNCHANGED <<input, todo, date, new_data, seen_sep, info, last_row,
                   records>>
    /\ UNCHANGED <<loopvars, tablevars, strvars>>

TableLabels == {"Alrm", "Groep"}

TableCells == {"IN", " 5\n"}

InitTable ==
    /\ LoopIdle
    /\ \E columns \in SeqsUpTo(TableLabels, MaxLabels) :
           \E body \in SeqsUpTo(SeqsUpTo(TableCells, MaxCells), MaxTrs) :
               doc = <<Document(columns, body)>>
    /\ run = 1
    /\ first = <<>>
    /\ index_error = <<>>
    /\ stage = "html"
    /\ input = <<>>
    /\ todo = doc[1].body
    /\ date = <<>>
    /\ new_data = <<>>
    /\ seen_sep = FALSE
    /\ info = <<>>
    /\ last_row = 0
    /\ records = <<>>

NextTable ==
    \/ HtmlRow
    \/ HtmlRaises
    \/ HtmlReturns

\* html_table_to_dicts on every table of at most MaxLabels labels and MaxTrs
\* rows of at most MaxCells cells
SpecTable == InitTable /\ [][NextTable]_vars

(***************************************************************************)
(* fetch_logs, run twice on one page                                       *)
(***************************************************************************)
Digits == "0123456789"

IsDigit(c) == \E d \in 1..10 : SubSeq(Digits, d, d) = c

DigitVal(c) == (CHOOSE d \in 1..10 : SubSeq(Digits, d, d) = c) - 1

\* The text of a Tijd cell as fix_dicts_datetime takes it apart: two digits,
\* a separator, two digits, the same separator, two digits; any other text
\* splits into something else than three numbers.
TextOf(s) ==
    IF /\ Len(s) = 8
       /\ SubSeq(s, 3, 3) = SubSeq(s, 6, 6)
       /\ \A i \in {1, 2, 4, 5, 7, 8} : IsDigit(SubSeq(s, i, i))
    THEN Text(SubSeq(s, 3, 3),
              10 * DigitVal(SubSeq(s, 1, 1)) + DigitVal(SubSeq(s, 2, 2)),
              10 * DigitVal(SubSeq(s, 4, 4)) + DigitVal(SubSeq(s, 5, 5)),
              10 * DigitVal(SubSeq(s, 7, 7)) + DigitVal(SubSeq(s, 8, 8)))
    ELSE [sep |-> "", parts |-> <<s>>]

\* a dict of html_table_to_dicts that has the portal's six keys, as a Row
RowOf(d) ==
    Row(d.Aansluiting, d.Alrm, d.Groep, d.Omschrijving, d.Sector,
        TextOf(d.Tijd))

\* the header of the portal's table
PortalColumns ==
    <<"Tijd", "Aansluiting", "Alrm", "Groep", "Sector", "Omschrijving">>

\* rows of the portal's table; the last has a cell too many
PortalTrs ==
    { <<"02/02/23", "", "", "", "---", "">>,
      <<"19:09:48", "E0123456", "INF", "5", "0", "VOLL. ING BOB">>,
      <<"\n 19:09:48 ", " E0123456", "IN\n", " 5 ", "0", "\tIn">>,
      <<"08:37:11", "E0123456", "UIT", "6", "0", "Uit">>,
      <<"19:09:48", "E0999999", "IN", "5", "0", "In">>,
      <<"19:09:48", "E0123456", "IN", "5", "0", "In", "">> }

\* fetch_logs is entered: fetch returns the page, html_table_to_dicts starts
InitFetchLogs ==
    /\ LoopIdle
    /\ \E body \in SeqsUpTo(PortalTrs, MaxBody) :
           doc = <<Document(PortalColumns, body)>>
    /\ run = 1
    /\ first = <<>>
    /\ index_error = <<>>
    /\ stage = "html"
    /\ input = <<>>
    /\ todo = doc[1].body
    /\ date = <<>>
    /\ new_data = <<>>
    /\ seen_sep = FALSE
    /\ info = <<>>
    /\ last_row = 0
    /\ records = <<>>

\* data = fix_dicts_datetime(data): the function is entered with the rows
\* that html_table_to_dicts returned
CallDatetime ==
    /\ stage = "rows"
    /\ stage' = "datetime"
    /\ input' = [i \in 1..Len(new_data) |-> RowOf(new_data[i])]
    /\ todo' = input'
    /\ new_data' = <<>>
    /\ date' = InitialDate
    /\ seen_sep' = FALSE
    /\ UNCHANGED <<info, last_row, records>>
    /\ UNCHANGED <<loopvars, tablevars, strvars>>

PipelineEnded == stage \in {"done", "error"}

\* __main__ without arguments: fetch_logs() has returned and is called again;
\* fetch reads the same page from the cache
SecondRun ==
    /\ stage = "done"
    /\ run = 1
    /\ run' = 2
    /\ first' = <<[stage |-> stage, records |-> records]>>
    /\ stage' = "html"
    /\ todo' = doc[1].body
    /\ new_data' = <<>>
    /\ records' = <<>>
    /\ input' = <<>>
    /\ UNCHANGED <<date, seen_sep, info, last_row>>
    /\ UNCHANGED <<loopvars, doc, index_error, strvars>>

NextFetchLogs ==
    \/ HtmlRow
    \/ HtmlRaises
    \/ HtmlReturns
    \/ CallDatetime
    \/ NextMerge
    \/ NextReconcile
    \/ SecondRun

\* fetch_logs, and fetch_logs again, on every page of at most MaxBody rows
\* of PortalTrs
SpecFetchLogs == InitFetchLogs /\ [][NextFetchLogs]_vars

(***************************************************************************)
(* to_records on reconciled rows                                           *)
(***************************************************************************)
\* rows per reconciled batch
MaxBatch == 2

\* the codes of the table of to_records, a code it does not have, no code
AlarmCodes == {"IN", "UIT", "24H", "TVU", "TLI", "AFW", "INB", ""}

Descriptions == {"", "In"}

Infos == {NoInfo, "", ":", "VOLL. ING BOB"}

\* rows as fix_dicts_who_did_what returns them: one device, and one row of
\* another
ReconciledRows ==
    { [Row("E0123456", alrm, "5", omschrijving, "0", Evening)
          EXCEPT !.Info = i] :
        alrm \in AlarmCodes, omschrijving \in Descriptions, i \in Infos }
    \cup {Row("E0999999", "IN", "5", "In", "0", Evening)}

InitRecords ==
    /\ LoopIdle
    /\ NoDocument
    /\ stage = "to_records"
    /\ input \in SeqsUpTo(ReconciledRows, MaxBatch)
    /\ todo = <<>>
    /\ date = <<>>
    /\ new_data = input
    /\ seen_sep = FALSE
    /\ info = <<>>
    /\ last_row = 0
    /\ records = <<>>

NextRecords ==
    \/ ToRecordsAssertFails
    \/ ToRecordsAssertHolds
    \/ ToRecordsRow
    \/ ToRecordsReturns

\* to_records on every batch of at most MaxBatch rows of ReconciledRows
SpecRecords == InitRecords /\ [][NextRecords]_vars

(***************************************************************************)
(* AlarmRecord.__str__                                                     *)
(***************************************************************************)
NormalEventsWithoutOverride == {"ALARM_ON", "ALARM_OFF", "24H"}

NORMAL_EVENTS == {"ALARM_ON", "ALARM_OFF", "24H", "OVERRIDE_ALARM_TIME"}

Digit(n) == SubSeq(Digits, n + 1, n + 1)

\* %m, %d, %H, %M, %S
Pad2(n) == Digit(n \div 10) \o Digit(n % 10)

\* %Y
Pad4(n) == Pad2(n \div 100) \o Pad2(n % 100)

\* self.datetime.strftime('%Y-%m-%d %H:%M:%S')
datetime_str(dt) ==
    Pad4(dt.year) \o "-" \o Pad2(dt.month) \o "-" \o Pad2(dt.day) \o " "
        \o Pad2(dt.hour) \o ":" \o Pad2(dt.minute) \o ":" \o Pad2(dt.second)

UpperCase == "ABCDEFGHIJKLMNOPQRSTUVWXYZ"

LowerCase == "abcdefghijklmnopqrstuvwxyz"

LowerChar(c) ==
    IF \E i \in 1..26 : SubSeq(UpperCase, i, i) = c
    THEN LET i == CHOOSE i \in 1..26 : SubSeq(UpperCase, i, i) = c
         IN  SubSeq(LowerCase, i, i)
    ELSE c

\* str.lower()
RECURSIVE Lower(_)
Lower(s) ==
    IF Len(s) = 0 THEN s
    ELSE LowerChar(SubSeq(s, 1, 1)) \o Lower(SubSeq(s, 2, Len(s)))

\* str.startswith(prefix)
StartsWith(s, prefix) ==
    Len(s) >= Len(prefix) /\ SubSeq(s, 1, Len(prefix)) = prefix

\* str.endswith(suffix)
EndsWith(s, suffix) ==
    Len(s) >= Len(suffix)
        /\ SubSeq(s, Len(s) - Len(suffix) + 1, Len(s)) = suffix

\* s[from:-back], from counted from 0
Slice(s, from, back) ==
    IF from + 1 > Len(s) - back THEN ""
    ELSE SubSeq(s, from + 1, Len(s) - back)

MentionWheneverMapped(username) ==
    IF Lower(username) \in DOMAIN SLACK_USERMAP
           /\ SLACK_USERMAP[Lower(username)] # ""
    THEN "<@" \o SLACK_USERMAP[Lower(username)] \o ">"
    ELSE username

username_as_slack_mention(username) ==
    IF username \in SLACK_NO_MENTION_USERS
    THEN username
    ELSE IF Lower(username) \notin DOMAIN SLACK_USERMAP
                \/ SLACK_USERMAP[Lower(username)] = ""
         THEN username
         ELSE "<@" \o SLACK_USERMAP[Lower(username)] \o ">"

\* '{0.datetime_str}: {0.event} (G{0.group}/S{0.sector})'.format(self).rstrip()
MessageHead(r) ==
    RStrip(datetime_str(r.datetime) \o ": " \o r.event \o " (G" \o r.group
               \o "/S" \o r.sector \o ")")

\* the info that __str__ shows for the record
ShownInfo(r) ==
    IF /\ r.event = "ALARM_ON"
       /\ StartsWith(r.extra, "VOLL. ING ")
       /\ EndsWith(r.extra, " (In)")
    THEN "by " \o username_as_slack_mention(Lower(Slice(r.extra, 10, 5)))
    ELSE IF /\ r.event = "ALARM_OFF"
            /\ StartsWith(r.extra, "UITGESCH. ")
            /\ EndsWith(r.extra, " (Uit)")
    THEN "by " \o username_as_slack_mention(Lower(Slice(r.extra, 10, 6)))
    ELSE IF r.event = "24H" /\ r.extra = "AUTOTEST (Test)"
    THEN "(autotest)"
    ELSE IF r.event \notin NORMAL_EVENTS
    THEN r.extra \o " <-- <!channel>"
    ELSE r.extra

\* AlarmRecord.__str__
Str(r) ==
    IF ShownInfo(r) # ""
    THEN MessageHead(r) \o ": " \o ShownInfo(r)
    ELSE MessageHead(r)

\* what the environment and users.list can make of the two globals
NoMentionLists == {{}, {"frank"}, {"Frank"}, {"alice", "frank"}}

Usermaps == {DefaultUsermap, [u \in {"bob"} |-> "U0B0B0B0B"], <<>>}

EventKinds ==
    { "ALARM_ON", "ALARM_OFF", "24H", "OVERRIDE_ALARM_TIME",
      "UNEXPECT_ALARM_OFF", "INB", "(log)" }

Details ==
    { "", "VOLL. ING BOB (In)", "VOLL. ING (In)", "VOLL. ING Frank (In)",
      "UITGESCH. ALICE (Uit)", "UITGESCH. FRANK (Uit)", "AUTOTEST (Test)",
      "INBRAAK (Inbraak)", "Bewaking <-- <!channel>" }

FormattedRecords ==
    { AlarmRecord(dt, ev, gr, "0", ex) :
        dt \in {Evening, Morning}, ev \in EventKinds, gr \in {"5", ""},
        ex \in Details }

InitFormat ==
    /\ InitLoop
    /\ cache = "absent"
    /\ PipeIdle
    /\ NoDocument
    /\ SLACK_NO_MENTION_USERS \in NoMentionLists
    /\ SLACK_USERMAP \in Usermaps
    /\ self = <<>>
    /\ message = <<>>

\* str(record), as send_slack_message(str(record)) and print(record) call it
Format ==
    \E r \in FormattedRecords :
        /\ self = <<>>
        /\ self' = <<r>>
        /\ message' = <<Str(r)>>
        /\ UNCHANGED <<SLACK_NO_MENTION_USERS, SLACK_USERMAP>>
        /\ UNCHANGED <<loopvars, pipevars, tablevars>>

NextFormat == Format

\* str() of every record of FormattedRecords under every setting of the
\* two globals
SpecFormat == InitFormat /\ [][NextFormat]_vars

(***************************************************************************)
(* Claims about the delivery loop                                          *)
(***************************************************************************)
Fresh(r) == r.datetime >= a_while_ago

CycleDone == pc = "delivering" /\ queue = <<>>

\* C1: when a cycle's fetched set contains the previous cycle's fetched set,
\* every message of the cycle is for a record of the difference: no record
\* of the previous cycle is sent again.
C1_NoResend ==
    (cycle >= 2 /\ prev_data \subseteq data)
        => Range(sent) \subseteq data \ prev_data

C1_Witness ==
    /\ CycleDone
    /\ cycle >= 2
    /\ prev_data \subseteq data
    /\ \E r \in prev_data : Fresh(r)
    /\ sent # <<>>

\* C2 as stated: the cycle that completes after a delivery failure has sent
\* every fresh unseen record of the failed cycle.
C2_AllOwedResent == (CycleDone /\ owed # {}) => owed \subseteq Range(sent)

\* C2 as amended: the cycle that completes after a delivery failure (the
\* first of a restarted process, whose snapshot is empty) has sent every fresh
\* unseen record of the failed cycle that its own fetch still lists and that
\* is not older than its own cutoff.
C2_OwedResentIfListedAndFresh ==
    (CycleDone /\ owed # {})
        => {r \in owed : r \in data /\ r.datetime >= now - FOUR_HOURS}
               \subseteq Range(sent)

C2_Witness ==
    /\ CycleDone
    /\ restarts > 0
    /\ owed # {}
    /\ owed \subseteq Range(sent)
    /\ \E r \in owed : r.datetime = now - FOUR_HOURS

\* C3: the snapshot is empty at process start, at the start of a cycle it is
\* exactly the previous cycle's fetched set, and so a record fetched in an
\* earlier cycle, missing from the previous one and fetched again is unseen.
C3_SnapshotReplaced ==
    /\ (cycle = 0 => already_published = {})
    /\ (pc \in {"loop", "retry"} => already_published = data)
    /\ \A r \in data \cap seen_before :
           r \notin prev_data => r \in not_published_yet

C3_Witness ==
    /\ pc = "delivering"
    /\ cycle >= 3
    /\ \E r \in data \cap seen_before :
           r \notin prev_data /\ r \in not_published_yet

\* C4: no message is sent for a record older than the cutoff of the cycle
\* that considers it, and a record that was older than the cutoff in a
\* first-ever fetch is sent in no cycle.
C4_NoStaleSent ==
    /\ (pc = "delivering" => a_while_ago = now - FOUR_HOURS)
    /\ \A r \in Range(sent) : r.datetime >= a_while_ago
    /\ Range(sent) \cap old_first = {}

C4_Witness ==
    /\ CycleDone
    /\ cycle >= 3
    /\ sent # <<>>
    /\ \E r \in old_first : r \in not_published_yet

\* C5: the messages of one cycle are sent in ascending (datetime, event)
\* order.
C5_SentInKeyOrder ==
    \A i, j \in 1..Len(sent) : i < j => SortKeyLE(sent[i], sent[j])

C5_Witness ==
    /\ Len(sent) = 3
    /\ sent[1].datetime = sent[2].datetime
    /\ sent[1].event # sent[2].event
    /\ sent[2].datetime < sent[3].datetime
    /\ ~StrLE(sent[2].event, sent[3].event)

\* C6: a failure seen MAX_FAIL_TIME or more after the retry loop began is
\* raised and terminates the process, so a retry loop whose attempts all
\* fail ends after at most MAX_FAIL_TIME / SLEEP_AFTER_FAIL + 1 attempts.
C6_RetryBounded ==
    /\ (fails > 0 /\ td_seen >= MAX_FAIL_TIME)
           => (pc = "terminated" /\ cause = "fetch")
    /\ fails <= MAX_FAIL_TIME \div SLEEP_AFTER_FAIL + 1

C6_Witness ==
    /\ pc = "terminated"
    /\ cause = "fetch"
    /\ td_seen = MAX_FAIL_TIME
    /\ fails = MAX_FAIL_TIME \div SLEEP_AFTER_FAIL + 1

\* C7: a fetch failure terminates the process only when MAX_FAIL_TIME has
\* passed since the current cycle's retry loop began, whatever time earlier
\* cycles spent failing.
C7_DeadlinePerCycle ==
    /\ (pc = "terminated" /\ cause = "fetch") => td_seen >= MAX_FAIL_TIME
    /\ pc = "retry" => t0 = now - spent

C7_Witness ==
    /\ pc = "retry"
    /\ fails > 0
    /\ failtime > 0
    /\ failtime + td_seen >= MAX_FAIL_TIME

(***************************************************************************)
(* Claims about the pipeline                                               *)
(***************************************************************************)
HasSeparator(rows) == \E i \in 1..Len(rows) : IsSeparator(rows[i])

WellTimed(rows) == \A i \in 1..Len(rows) : Len(Split(rows[i].Tijd, ":")) = 3

\* under SpecMerge, fix_dicts_datetime has returned
DatetimeReturned == stage = "who"

\* C8 as stated: no row is emitted before a date-separator row has been
\* consumed, and on an input without a date-separator row fix_dicts_datetime
\* never returns.
C8_NoSeparatorNeverReturns ==
    /\ (stage = "datetime" /\ new_data # <<>>) => seen_sep
    /\ ~HasSeparator(input) => ~DatetimeReturned

\* C8 as amended: no row is emitted before a date-separator row has been
\* consumed, and on a non-empty input without a date-separator row
\* fix_dicts_datetime never returns (it raises on the first row).
C8_NonEmptyNoSeparatorNeverReturns ==
    /\ (stage = "datetime" /\ new_data # <<>>) => seen_sep
    /\ (DatetimeReturned /\ todo # <<>>) => seen_sep
    /\ (input # <<>> /\ ~HasSeparator(input)) => ~DatetimeReturned

C8_Witness ==
    /\ stage = "error"
    /\ Len(input) >= 2
    /\ ~HasSeparator(input)
    /\ WellTimed(input)
    /\ todo = input
    /\ new_data = <<>>

\* fix_dicts_who_did_what then to_records, as fetch_logs chains them
Reconcile(rows) ==
    LET w == fix_dicts_who_did_what(rows)
        r == to_records(w.new_data)
    IN  IF w.ok /\ r.ok
        THEN [ok |-> TRUE, rows |-> w.new_data, records |-> r.records]
        ELSE [ok |-> FALSE, rows |-> <<>>, records |-> <<>>]

\* rows with rows i and i+1 exchanged
Swap(rows, i) ==
    [k \in 1..Len(rows) |->
        IF k = i THEN rows[i + 1] ELSE IF k = i + 1 THEN rows[i] ELSE rows[k]]

\* rows i and i+1 are an annotation and then a substantive row with its key
AnnotatedPair(rows, i) ==
    /\ i \in 1..(Len(rows) - 1)
    /\ rows[i].Alrm = "INF"
    /\ rows[i + 1].Alrm # "INF"
    /\ SameKey(rows[i], rows[i + 1])

\* where the substantive row of the pair at i, i+1 stands in the output
TargetIndex(rows, i) ==
    Cardinality({k \in 1..(i + 1) : rows[k].Alrm # "INF"})

\* The finished run on `input` (annotation first) and the run on the batch
\* with the pair exchanged (annotation last) end the same way, and if they
\* return, the pair's substantive row has the same Info and detail in both.
SameEitherWay(i) ==
    LET other == Reconcile(Swap(input, i))
        k == TargetIndex(input, i)
    IN  /\ (stage = "done") = other.ok
        /\ stage = "done" =>
               /\ new_data[k].Info = other.rows[k].Info
               /\ records[k].extra = other.records[k].extra

\* the locals of fix_dicts_who_did_what when it reaches row i
WhoLocalsAt(rows, i) == WhoLoop(WhoStart, SubSeq(rows, 1, i - 1))

\* when the pair is reached no annotation is pending and last_row does not
\* have the pair's key
PairReachedClean(rows, i) ==
    LET st == WhoLocalsAt(rows, i)
    IN  /\ st.ok
        /\ st.info = <<>>
        /\ st.last_row = 0 \/ ~SameKey(st.new_data[st.last_row], rows[i])

\* no further annotation with the pair's key stands between the pair and the
\* next substantive row
NoEchoAfterPair(rows, i) ==
    \A j \in (i + 2)..Len(rows) :
        (rows[j].Alrm = "INF" /\ SameKey(rows[j], rows[i]))
            => \E k \in (i + 2)..(j - 1) : rows[k].Alrm # "INF"

\* C9 as stated: in every batch, an annotation row and the substantive row
\* with its key give the same result whether the annotation stands
\* immediately before or immediately after the substantive row.
C9_SymmetricInEveryBatch ==
    PipelineEnded =>
        \A i \in 1..Len(input) : AnnotatedPair(input, i) => SameEitherWay(i)

\* C9 as amended: the same, for the pairs that are reached with no annotation
\* pending and last_row not having the pair's key, and that are not followed,
\* before the next substantive row, by another annotation with that key.
C9_SymmetricForCleanPairs ==
    PipelineEnded =>
        \A i \in 1..Len(input) :
            (/\ AnnotatedPair(input, i)
             /\ PairReachedClean(input, i)
             /\ NoEchoAfterPair(input, i)) => SameEitherWay(i)

C9_Witness ==
    /\ stage = "done"
    /\ Len(input) = MaxRows
    /\ \E i \in 2..Len(input) :
           /\ AnnotatedPair(input, i)
           /\ PairReachedClean(input, i)
           /\ NoEchoAfterPair(input, i)
           /\ i + 1 < Len(input)
           /\ new_data[TargetIndex(input, i)].Info = input[i].Omschrijving
           /\ Reconcile(Swap(input, i)).ok

MixedDevices(rows) ==
    \E i, j \in 1..Len(rows) : rows[i].Aansluiting # rows[j].Aansluiting

\* C10: on a batch in which two rows carry different device identifiers,
\* fix_dicts_who_did_what then to_records raises and produces no record.
C10_MixedBatchRaises ==
    MixedDevices(input) => (stage # "done" /\ records = <<>>)

(***************************************************************************)
(* Claims about fetch_logs and html_table_to_dicts                         *)
(***************************************************************************)
\* the rows of the scenario, as html_table_to_dicts hands them on
ScenarioRows ==
    << SepRow(2, 2, 23),
       Row("E0123456", "INF", "5", "VOLL. ING BOB", "0", Text(":", 19, 9, 48)),
       Row("E0123456", "IN", "5", "In", "0", Text(":", 19, 9, 48)) >>

ScenarioRecord ==
    AlarmRecord(Evening, "ALARM_ON", "5", "0", "VOLL. ING BOB (In)")

\* C11: the rows [date separator 02/02/23, INF row of group 5 with
\* description 'VOLL. ING BOB' at 19:09:48, IN row of group 5 with
\* description 'In' at 19:09:48], run through fix_dicts_datetime,
\* fix_dicts_who_did_what and to_records, raise nowhere and yield exactly
\* one record: 2023-02-02 19:09:48, ALARM_ON, group '5',
\* detail 'VOLL. ING BOB (In)'.
C11_ScenarioYieldsOneRecord ==
    input = ScenarioRows =>
        /\ stage # "error"
        /\ stage = "done" => records = <<ScenarioRecord>>
        /\ Len(records) <= 1

C11_Witness ==
    /\ input = ScenarioRows
    /\ stage = "done"
    /\ records = <<ScenarioRecord>>

\* C12: a second run of fetch_logs on the same page ends as the first run
\* did, with the same sequence of records, so that every record of the
\* second run is one of the first run's.
C12_SecondRunSame ==
    (run = 2 /\ PipelineEnded) =>
        /\ stage = first[1].stage
        /\ records = first[1].records
        /\ Range(records) \subseteq Range(first[1].records)

C12_Witness ==
    /\ run = 2
    /\ stage = "done"
    /\ records # <<>>
    /\ info # <<>>

\* C18: html_table_to_dicts gives each row the labels of the header that
\* stand where the row has cells, each with the trimmed text of the last
\* cell under it; it raises only on a row with more cells than the header
\* has labels, with that row's cells as the error's argument, and it returns
\* a list only when no row has more cells than the header has labels, rows
\* with fewer cells included.
C18_CellsMapToLabels ==
    LET columns == doc[1].columns
        body == doc[1].body
    IN  /\ (\E i \in 1..Len(body) : Len(body[i]) > Len(columns))
               => stage # "rows"
        /\ stage = "error" =>
               \E i \in 1..Len(body) :
                   /\ Len(body[i]) > Len(columns)
                   /\ index_error = <<body[i]>>
                   /\ \A j \in 1..(i - 1) : Len(body[j]) <= Len(columns)
        /\ stage = "rows" =>
               /\ Len(new_data) = Len(body)
               /\ \A i \in 1..Len(body) :
                      /\ DOMAIN new_data[i] =
                             {columns[n] : n \in 1..Len(body[i])}
                      /\ \A n \in 1..Len(body[i]) :
                             (\A m \in (n + 1)..Len(body[i]) :
                                  columns[m] # columns[n])
                                 => new_data[i][columns[n]] = Strip(body[i][n])

C18_Witness ==
    /\ stage = "error"
    /\ Len(doc[1].columns) = 2
    /\ doc[1].columns[1] # doc[1].columns[2]
    /\ Len(doc[1].body[1]) = 1
    /\ DOMAIN new_data[1] = {doc[1].columns[1]}
    /\ Len(doc[1].body[2]) = 3
    /\ index_error = <<doc[1].body[2]>>

(***************************************************************************)
(* Claims about to_records                                                 *)
(***************************************************************************)
HasInfo(row) == row.Info # NoInfo

\* C13: the detail of each record starts from the row's Info if it has one,
\* else from the empty string; with a non-empty description it is
\* '<info> (<description>)' when the info is non-empty and not ':', and the
\* description alone otherwise; with an empty description it is the info.
C13_DetailComposed ==
    \A i \in 1..Len(records) :
        LET row == new_data[i]
            start == IF HasInfo(row) THEN row.Info ELSE ""
            detail == records[i].extra
        IN  /\ (row.Omschrijving # "" /\ start # "" /\ start # ":")
                   => detail = start \o " (" \o row.Omschrijving \o ")"
            /\ (row.Omschrijving # "" /\ (start = "" \/ start = ":"))
                   => detail = row.Omschrijving
            /\ row.Omschrijving = "" => detail = start

C13_Witness ==
    /\ stage = "done"
    /\ Len(records) = 2
    /\ new_data[1].Info = ":"
    /\ new_data[1].Omschrijving = "In"
    /\ records[1].extra = "In"
    /\ new_data[2].Info = "VOLL. ING BOB"
    /\ records[2].extra = "VOLL. ING BOB (In)"

\* the fixed table of to_records
TableKind(alrm) ==
    CASE alrm = "IN" -> "ALARM_ON"
      [] alrm = "UIT" -> "ALARM_OFF"
      [] alrm = "24H" -> "24H"
      [] alrm = "AFW" -> "OVERRIDE_ALARM_TIME"
      [] alrm = "TVU" -> "UNEXPECT_ALARM_OFF"
      [] alrm = "TLI" -> "UNEXPECT_NO_ALARM_YET"

InTable(alrm) == alrm \in {"IN", "UIT", "24H", "AFW", "TVU", "TLI"}

\* C14 as stated: a code of the table gives the table's kind, and every code
\* that is not in the table is the record's event kind verbatim.
C14_UnknownCodesVerbatim ==
    \A i \in 1..Len(records) :
        LET alrm == new_data[i].Alrm
        IN  /\ InTable(alrm) => records[i].event = TableKind(alrm)
            /\ ~InTable(alrm) => records[i].event = alrm

\* C14 as amended: a code of the table gives the table's kind, every
\* non-empty code that is not in the table is the record's event kind
\* verbatim, and the empty code gives the kind '(log)'.
C14_NonEmptyUnknownCodesVerbatim ==
    \A i \in 1..Len(records) :
        LET alrm == new_data[i].Alrm
        IN  /\ InTable(alrm) => records[i].event = TableKind(alrm)
            /\ (~InTable(alrm) /\ alrm # "") => records[i].event = alrm
            /\ alrm = "" => records[i].event = "(log)"

C14_Witness ==
    /\ stage = "done"
    /\ Len(records) = 2
    /\ new_data[1].Alrm = "AFW"
    /\ records[1].event = "OVERRIDE_ALARM_TIME"
    /\ new_data[2].Alrm = "INB"
    /\ records[2].event = "INB"

\* C15: a row with the empty alarm code gives a record of kind '(log)', and
\* no record of to_records has the empty kind.
C15_NoEmptyKind ==
    \A i \in 1..Len(records) :
        /\ records[i].event # ""
        /\ new_data[i].Alrm = "" => records[i].event = "(log)"

C15_Witness ==
    /\ stage = "done"
    /\ Len(records) = 2
    /\ new_data[1].Alrm = ""
    /\ records[1].event = "(log)"
    /\ new_data[2].Alrm = "IN"

(***************************************************************************)
(* Claims about the formatted message                                      *)
(***************************************************************************)
ChannelSuffix == " <-- <!channel>"

\* the message is the head, the record's detail and the channel suffix
Flagged(r, msg) == msg = MessageHead(r) \o ": " \o r.extra \o ChannelSuffix

Actors == {"BOB", "ALICE", "FRANK", "Frank", ""}

\* the record says that the user `name` switched the alarm on or off
SwitchedBy(r, name) ==
    \/ r.event = "ALARM_ON" /\ r.extra = "VOLL. ING " \o name \o " (In)"
    \/ r.event = "ALARM_OFF" /\ r.extra = "UITGESCH. " \o name \o " (Uit)"

Mentionable(actor) ==
    /\ actor \in DOMAIN SLACK_USERMAP
    /\ actor \notin SLACK_NO_MENTION_USERS

\* C17: for an ALARM_ON record with detail 'VOLL. ING <name> (In)' and an
\* ALARM_OFF record with detail 'UITGESCH. <name> (Uit)' the message ends
\* in 'by <actor>', the actor being the lowercased name, shown as the
\* mention '<@id>' exactly if it is in the user map and not in
\* SLACK_NO_MENTION_USERS, and as the plain lowercased name otherwise; an
\* actor in SLACK_NO_MENTION_USERS is never shown as a mention.
C17_MentionUnlessListed ==
    message # <<>> =>
        \A name \in Actors :
            SwitchedBy(self[1], name) =>
                LET actor == Lower(name)
                IN  /\ Mentionable(actor) =>
                           message[1] = MessageHead(self[1]) \o ": by <@"
                                            \o SLACK_USERMAP[actor] \o ">"
                    /\ ~Mentionable(actor) =>
                           message[1] = MessageHead(self[1]) \o ": by "
                                            \o actor
                    /\ actor \in SLACK_NO_MENTION_USERS =>
                           ~EndsWith(message[1], ">")

C17_Witness ==
    /\ SLACK_NO_MENTION_USERS = {"frank"}
    /\ SLACK_USERMAP = DefaultUsermap
    /\ self # <<>>
    /\ self[1].extra = "UITGESCH. FRANK (Uit)"
    /\ message = <<"2023-02-02 08:37:11: ALARM_OFF (G5/S0): by frank">>

(***************************************************************************)
(* Claims about failures in the delivery loop                              *)
(***************************************************************************)
\* the retry loop is about to start an attempt
AttemptStarts == pc = "retry"

\* C19 as stated: no attempt starts once MAX_FAIL_TIME seconds have passed
\* since the retry loop of the cycle began.
C19_NoAttemptAfterDeadline == AttemptStarts => now - t0 < MAX_FAIL_TIME

\* C19 as amended: the deadline is looked at only when an attempt fails; no
\* attempt starts after a failure that was seen MAX_FAIL_TIME seconds or
\* more after the retry loop began, and so every attempt starts less than
\* MAX_FAIL_TIME + SLEEP_AFTER_FAIL seconds after it began.
C19_NoAttemptAfterLateFailure ==
    AttemptStarts =>
        /\ now - t0 < MAX_FAIL_TIME + SLEEP_AFTER_FAIL
        /\ fails > 0 =>
               /\ td_seen < MAX_FAIL_TIME
               /\ now - t0 = td_seen + SLEEP_AFTER_FAIL

C19_Witness ==
    /\ AttemptStarts
    /\ fails > 0
    /\ now - t0 > MAX_FAIL_TIME

\* C20: when send_slack_message raises, the process terminates with the
\* failed record and the records after it unsent: the failed message is not
\* sent again and no later message of the cycle is sent.
C20_SendFailureIsFatal ==
    cause = "send" =>
        /\ pc = "terminated"
        /\ queue # <<>>
        /\ Head(queue).datetime >= a_while_ago
        /\ Range(queue) \cap Range(sent) = {}

C20_Witness ==
    /\ pc = "terminated"
    /\ cause = "send"
    /\ sent # <<>>
    /\ Len(queue) >= 2
    /\ queue[2].datetime >= a_while_ago

(***************************************************************************)
(* Claims about the cache                                                  *)
(***************************************************************************)
\* C21: every attempt of the retry loop, the first of a cycle and every
\* retry after a failure in fetching or in parsing, deletes the cache
\* before fetch reads it: fetch never reads a cached page and every attempt
\* goes through login_and_fetch.
C21_CacheAbsentWhenRead ==
    /\ read \in {"none", "absent"}
    /\ (fails > 0 \/ pc = "delivering") => read = "absent"
    /\ read # "none" => NeedsLogin(read)

C21_Witness ==
    /\ pc = "retry"
    /\ fails >= 2
    /\ found = "marker"
    /\ read = "absent"
    /\ cache = "marker"

(***************************************************************************)
(* Claims about the output of fix_dicts_datetime and fix_dicts_who_did_what *)
(***************************************************************************)
\* the k-th smallest element of a set of numbers
Kth(S, k) == CHOOSE i \in S : Cardinality({j \in S : j <= i}) = k

\* the rows of `rows` that satisfy Keep, in their order
Kept(rows, Keep(_)) ==
    LET S == {i \in 1..Len(rows) : Keep(rows[i])}
    IN  [k \in 1..Cardinality(S) |-> rows[Kth(S, k)]]

NotSeparator(row) == ~IsSeparator(row)

\* the date-separator row nearest before row i
NearestSeparator(rows, i) ==
    CHOOSE j \in 1..(i - 1) :
        /\ IsSeparator(rows[j])
        /\ \A m \in (j + 1)..(i - 1) : ~IsSeparator(rows[m])

\* row i with, as its time, the day/month/2000+yy of the nearest separator
\* before it and its own hh:mm:ss
Dated(rows, i) ==
    LET dmy == rows[NearestSeparator(rows, i)].Tijd.parts
        hms == rows[i].Tijd.parts
    IN  [rows[i] EXCEPT !.Tijd =
            [year |-> 2000 + dmy[3], month |-> dmy[2], day |-> dmy[1],
             hour |-> hms[1], minute |-> hms[2], second |-> hms[3]]]

\* C22: whenever fix_dicts_datetime returns, its output is the non-separator
\* rows of the input in input order, each with its time field replaced by
\* the date of the nearest preceding date-separator row (day/month/2000+yy)
\* and its own hh:mm:ss; no separator row is in the output.
C22_OutputIsDatedRows ==
    DatetimeReturned =>
        LET S == {i \in 1..Len(input) : ~IsSeparator(input[i])}
        IN  /\ Len(todo) = Cardinality(S)
            /\ \A k \in 1..Len(todo) : todo[k] = Dated(input, Kth(S, k))
            /\ \A k \in 1..Len(todo) : ~IsSeparator(todo[k])

C22_Witness ==
    /\ DatetimeReturned
    /\ Len(input) = 4
    /\ IsSeparator(input[1])
    /\ IsSeparator(input[3])
    /\ Len(todo) = 2
    /\ todo[1].Tijd.day = 2
    /\ todo[2].Tijd.day = 3
    /\ todo[2].Tijd.month = 2

IsSubstantive(row) == row.Alrm # "INF"

\* the rows without what fix_dicts_who_did_what attached to them
WithoutInfo(rows) == [i \in 1..Len(rows) |-> [rows[i] EXCEPT !.Info = NoInfo]]

\* under SpecReconcile, fix_dicts_who_did_what has returned
WhoReturned ==
    \/ stage \in {"to_records", "records", "done"}
    \/ stage = "error" /\ todo = <<>>

\* C23: whenever fix_dicts_who_did_what returns, its output is the non-INF
\* rows of the input in input order: no INF row is emitted and no other row
\* is dropped, duplicated or reordered.
C23_OutputIsSubstantiveRows ==
    WhoReturned => WithoutInfo(new_data) = Kept(input, IsSubstantive)

C23_Witness ==
    /\ WhoReturned
    /\ Len(input) = 4
    /\ Len(new_data) = 2
    /\ new_data[1].Info # NoInfo
    /\ new_data[2].Info = NoInfo
    /\ input[4].Alrm = "INF"

(***************************************************************************)
(* Claims about the pending annotation of fix_dicts_who_did_what           *)
(***************************************************************************)
\* (device, group, sector, timestamp) of a row
KeyOf(row) == <<row.Aansluiting, row.Groep, row.Sector, row.Tijd>>

\* the loop of fix_dicts_who_did_what is about to take an INF row
AtAnnotation == stage = "who" /\ todo # <<>> /\ Head(todo).Alrm = "INF"

\* the loop of fix_dicts_who_did_what is about to take any other row
AtSubstantive == stage = "who" /\ todo # <<>> /\ Head(todo).Alrm # "INF"

\* last_row is set and has the key of the row the loop is about to take
HeadMatchesLastEmitted ==
    last_row # 0 /\ KeyOf(new_data[last_row]) = KeyOf(Head(todo))

\* every Info in the output is the text of an INF row of the input that has
\* the key of the row it is attached to
InfoFromSameKey ==
    \A i \in 1..Len(new_data) :
        new_data[i].Info # NoInfo =>
            \E j \in 1..Len(input) :
                /\ input[j].Alrm = "INF"
                /\ KeyOf(input[j]) = KeyOf(new_data[i])
                /\ input[j].Omschrijving = new_data[i].Info

\* C24: a substantive row that arrives while an annotation is pending and
\* differs from it in device, group, sector or timestamp ends the function
\* in an error with nothing attached, and no output row ever carries the
\* text of an annotation with a different key.
C24_MismatchIsFatal ==
    [][ /\ (AtSubstantive /\ info # <<>>
              /\ KeyOf(Head(todo)) # KeyOf(info[1]))
            => (stage' = "error" /\ new_data' = new_data)
        /\ InfoFromSameKey'
      ]_vars

C24_Witness ==
    /\ stage = "error"
    /\ todo # <<>>
    /\ Head(todo).Alrm # "INF"
    /\ info # <<>>
    /\ Head(todo).Aansluiting # info[1].Aansluiting
    /\ Head(todo).Tijd = info[1].Tijd
    /\ new_data # <<>>

\* C25: an annotation row with the key of last_emitted is attached backward
\* to last_emitted and leaves the pending slot and last_emitted as they
\* were, whatever row follows; any other annotation row becomes the pending
\* one and changes no output row.
C25_MatchingAnnotationGoesBackward ==
    [][ AtAnnotation =>
            IF HeadMatchesLastEmitted
            THEN /\ info' = info
                 /\ last_row' = last_row
                 /\ new_data' = [new_data EXCEPT
                        ![last_row].Info = Head(todo).Omschrijving]
                 /\ stage' = "who"
            ELSE /\ info' = <<Head(todo)>>
                 /\ new_data' = new_data
                 /\ stage' = "who"
      ]_vars

\* an annotation was attached backward although the row after it has the
\* same key, and another annotation was pending meanwhile
C25_Witness ==
    /\ stage = "who"
    /\ last_row # 0
    /\ new_data[last_row].Info = "VOLL. ING ALICE"
    /\ info # <<>>
    /\ info[1].Omschrijving = "VOLL. ING BOB"
    /\ input[Len(input) - Len(todo)].Alrm = "INF"
    /\ input[Len(input) - Len(todo)].Omschrijving = "VOLL. ING ALICE"

\* C26: the pass that gives a substantive row the text of the pending
\* annotation clears last_emitted and the pending slot; rows other than
\* last_emitted never change; with last_emitted cleared an annotation row
\* becomes pending.
C26_ForwardInfoIsFinal ==
    [][ /\ (AtSubstantive /\ info # <<>>
              /\ KeyOf(Head(todo)) = KeyOf(info[1]))
            => /\ last_row' = 0
               /\ info' = <<>>
               /\ new_data' = Append(new_data,
                      [Head(todo) EXCEPT !.Info = info[1].Omschrijving])
        /\ \A i \in 1..Len(new_data) :
               i # last_row => (i <= Len(new_data') /\ new_data'[i] = new_data[i])
        /\ (AtAnnotation /\ last_row = 0)
            => (info' = <<Head(todo)>> /\ new_data' = new_data)
      ]_vars

\* a row got its Info forward, and an annotation with its key and another
\* text that came after it is pending
C26_Witness ==
    /\ WhoReturned
    /\ Len(input) = 3
    /\ Len(new_data) = 1
    /\ new_data[1].Info = "VOLL. ING BOB"
    /\ info # <<>>
    /\ KeyOf(info[1]) = KeyOf(new_data[1])
    /\ info[1].Omschrijving = "VOLL. ING ALICE"
    /\ input[1].Alrm = "INF"
    /\ last_row = 0

\* the rows without the last one equal to `row`
WithoutLast(rows, row) ==
    LET j == CHOOSE j \in 1..Len(rows) :
                 /\ rows[j] = row
                 /\ \A m \in (j + 1)..Len(rows) : rows[m] # row
    IN  SubSeq(rows, 1, j - 1) \o SubSeq(rows, j + 1, Len(rows))

\* the output is what the batch without the pending annotation gives
PendingLeftNoTrace ==
    (WhoReturned /\ info # <<>>) =>
        LET rest == fix_dicts_who_did_what(WithoutLast(input, info[1]))
        IN  rest.ok /\ rest.new_data = new_data

\* C27: when the batch ends while an annotation is pending the function
\* returns its output as it stands, and that output is the one the batch
\* gives without the annotation.
C27_PendingAtEndDropped ==
    [][ /\ (stage = "who" /\ todo = <<>> /\ info # <<>>)
            => (stage' = "to_records" /\ new_data' = new_data)
        /\ PendingLeftNoTrace'
      ]_vars

C27_Witness ==
    /\ stage = "to_records"
    /\ info # <<>>
    /\ Len(input) = 4
    /\ input[4] = info[1]
    /\ Len(new_data) = 2
    /\ KeyOf(new_data[2]) # KeyOf(info[1])
    /\ \A i \in 1..2 : new_data[i].Info # info[1].Omschrijving

\* C28: an annotation row that does not match last_emitted and arrives while
\* another is pending takes its place without error and changes no output
\* row; a row appended with an Info has the text of the annotation pending
\* at that pass, and an Info that changes takes the text of the row of that
\* pass, so the text of a replaced annotation reaches no output row.
C28_OnePendingAnnotation ==
    [][ /\ (AtAnnotation /\ info # <<>> /\ ~HeadMatchesLastEmitted)
            => /\ stage' = "who"
               /\ info' = <<Head(todo)>>
               /\ new_data' = new_data
               /\ last_row' = last_row
        /\ Len(info') <= 1
        /\ \A i \in (Len(new_data) + 1)..Len(new_data') :
               new_data'[i].Info # NoInfo
                   => (info # <<>> /\ new_data'[i].Info = info[1].Omschrijving)
        /\ \A i \in 1..Len(new_data) :
               (i <= Len(new_data') /\ new_data'[i].Info # new_data[i].Info)
                   => (AtAnnotation
                       /\ new_data'[i].Info = Head(todo).Omschrijving)
      ]_vars

\* ALICE replaced the pending BOB, and the row after them got ALICE
C28_Witness ==
    /\ WhoReturned
    /\ Len(input) >= 3
    /\ input[1].Alrm = "INF"
    /\ input[1].Omschrijving = "VOLL. ING BOB"
    /\ input[2].Alrm = "INF"
    /\ input[2].Omschrijving = "VOLL. ING ALICE"
    /\ KeyOf(input[1]) = KeyOf(input[2])
    /\ new_data # <<>>
    /\ new_data[1].Info = "VOLL. ING ALICE"
    /\ \A i \in 1..Len(new_data) : new_data[i].Info # "VOLL. ING BOB"

(***************************************************************************)
(* Claims about a fetched list that holds a record more than once          *)
(***************************************************************************)
\* how many messages of the cycle are the record r
TimesSent(r) == Cardinality({i \in 1..Len(sent) : sent[i] = r})

\* C29: at the end of a cycle whose deliveries all succeeded, each distinct
\* record of the fetched list that is not in the previous snapshot and not
\* older than the 4-hour cutoff has been sent exactly once in the cycle,
\* also when the list holds it more than once; nothing else is sent.
C29_EachNewRecordSentOnce ==
    CycleDone =>
        \A r \in Records :
            TimesSent(r) =
                IF /\ r \in DOMAIN batch
                   /\ r \notin prev_data
                   /\ r.datetime >= now - FOUR_HOURS
                THEN 1 ELSE 0

\* a second cycle in which one record held twice was new and sent, and one
\* held twice was in the previous snapshot
C29_Witness ==
    /\ CycleDone
    /\ cycle = 2
    /\ \E r \in Range(sent) : batch[r] = 2
    /\ \E r \in DOMAIN batch : batch[r] = 2 /\ r \in prev_data
    /\ \E r \in DOMAIN batch :
           batch[r] = 2 /\ r \notin prev_data /\ r.datetime < now - FOUR_HOURS

====
